---- MODULE Spec2Model ----
(***************************************************************************)
(* Zoom-history / deferred-commit state machine of the EventsChart         *)
(* component (views/organizationEvents/eventsChart.jsx).                   *)
(*                                                                         *)
(* Time is counted in milliseconds from 1970-01-01T00:00:00Z.  A canonical *)
(* date string "1970-01-DDThh:mm:ss" is represented by the decimal number  *)
(* DDhhmmss that its digits spell.  A relative period string such as "14d" *)
(* is represented by its number and its unit letter.                       *)
(***************************************************************************)
EXTENDS Integers, Sequences, FiniteSets, TLC

\* ------------------------------------------------------------------ bounds
\* input events (prop changes and period requests) in one run
MaxSteps == 3
\* points of the plotted series
SeriesLen == 2

\* ------------------------------------------------------- program constants
Second == 1000
Minute == 60000
Hour == 3600000
Day == 86400000
HourlyLimit == 24

\* --------------------------------------------------------------- JS values
Null == [k |-> "null", v |-> 0, id |-> 0]
DateV(ms, id) == [k |-> "date", v |-> ms, id |-> id]
MomentV(ms) == [k |-> "moment", v |-> ms, id |-> 0]
StrV(digits) == [k |-> "str", v |-> digits, id |-> 0]

PNull == [k |-> "null", n |-> 0, u |-> ""]
PStr(n, u) == [k |-> "str", n |-> n, u |-> u]

\* moment.HTML5_FMT.DATETIME_LOCAL_SECONDS: YYYY-MM-DDTHH:mm:ss, in UTC,
\* the milliseconds dropped
FormatUtc(ms) ==
    LET secs == ms \div Second
        d == secs \div (Day \div Second)
        r == secs % (Day \div Second)
        h == r \div (Hour \div Second)
        m == (r % (Hour \div Second)) \div (Minute \div Second)
        s == r % (Minute \div Second)
    IN  (d + 1) * 1000000 + h * 10000 + m * 100 + s

\* a parse that reads the string as local time, one hour east of UTC
ParseLocal(digits) ==
    LET d == (digits \div 1000000) - 1
        h == (digits \div 10000) % 100
        m == (digits \div 100) % 100
        s == digits % 100
    IN  d * Day + h * Hour + m * Minute + s * Second - Hour

\* moment.utc(string): the instant a canonical string names
ParseUtc(digits) ==
    LET d == (digits \div 1000000) - 1
        h == (digits \div 10000) % 100
        m == (digits \div 100) % 100
        s == digits % 100
    IN  d * Day + h * Hour + m * Minute + s * Second

\* moment.utc(x) for a Date, a moment or a canonical string
MomentUtc(x) == IF x.k = "str" THEN ParseUtc(x.v) ELSE x.v

\* getDate: null stays null, anything else is formatted in UTC
getDate(date) == IF date.k = "null" THEN Null ELSE StrV(FormatUtc(MomentUtc(date)))

\* ------------------------------------------------------------------ inputs
\* the ranges the owning context supplies: relative periods and absolute
\* windows (start instant, start object, end instant, end object)
RelativePeriods == {PStr(1, "h"), PStr(1, "d"), PStr(14, "d")}
AbsoluteWindows ==
    { <<0, 1, Day, 1>>,              \* exactly 24h0m0s
      <<0, 2, Day, 1>>,              \* the same instants, start a new object
      <<Second, 1, Day, 1>>,         \* start advanced by one second
      <<0, 1, Day + Second, 1>>,     \* 24h0m1s
      <<0, 1, Day + Hour, 1>>,       \* 25h
      <<500, 1, Day, 1>> }           \* start half a second later
RelativeRange(p) == [period |-> p, start |-> Null, end |-> Null]
AbsoluteRange(w) ==
    [period |-> PNull, start |-> DateV(w[1], w[2]), end |-> DateV(w[3], w[4])]
PropsOver(ranges) ==
    { [period |-> r.period, start |-> r.start, end |-> r.end, zoom |-> z, onZoom |-> o] :
        r \in ranges, z \in BOOLEAN, o \in BOOLEAN }

\* every range above, for the operations that depend on the props alone
WidePropsSet ==
    PropsOver({ RelativeRange(p) : p \in RelativePeriods }
              \cup { AbsoluteRange(w) : w \in AbsoluteWindows })

\* the ranges the zoom state machine is run with: a relative period (daily
\* buckets) and an absolute window (hourly buckets) whose start has a
\* fraction of a second
PropsSet ==
    PropsOver({ RelativeRange(PStr(14, "d")), AbsoluteRange(<<500, 1, Day, 1>>) })

\* the series the data collaborator plots: SeriesLen buckets of the rendered
\* interval, timestamps ascending
SeriesFor(itv) ==
    [i \in 1..SeriesLen |-> (i - 1) * (IF itv = "1h" THEN Hour ELSE Day)]

\* ------------------------------------------------------------------- state
VARIABLES
    props,          \* this.props: period, start, end, zoom, onZoom
    currentPeriod,  \* this.currentPeriod
    history,        \* this.history
    zooming,        \* this.zooming: the deferred commit, or unset
    interval,       \* the interval of the last render ("1h" or "1d")
    series,         \* timestamps of the plotted series (firstSeries.data[i][0])
    calls,          \* the calls to onZoom / actions.updateParams made by the last handler
    lastEvent,      \* the handler that ran last
    nSetPeriod,     \* number of setPeriod calls so far
    nUpdate,        \* number of actions.updateParams calls so far
    sinceCommit,    \* number of setPeriod calls since the last commit
    lastReq,        \* the canonical range of the last setPeriod call
    root,           \* the snapshot before the first zoom-in of the current history
    trail,          \* for each history entry, the range its zoom-in requested
    prevLen,        \* length of history before the last handler ran
    nProps,         \* number of prop changes so far
    markers,        \* <<rangeStart, rangeEnd>> of the last zoom-in, <<0, 0>> otherwise
    trip            \* progress through zoom-in, finished, step-back, finished

vars == <<props, currentPeriod, history, zooming, interval, series,
          calls, lastEvent, nSetPeriod, nUpdate, sinceCommit, lastReq,
          root, trail, prevLen, nProps, markers, trip>>

Range(period, start, end) == [period |-> period, start |-> start, end |-> end]
NoRange == Range(PNull, Null, Null)

\* the round trip zoom-in, finished, step-back, finished: the stage reached
\* (0 = not on it), and the snapshot and history it started from
TripIdle == [stage |-> 0, r0 |-> NoRange, h |-> << >>]
TripAfter(event) ==
    CASE event = "zoomin" /\ ~zooming.set ->
           [stage |-> 1, r0 |-> currentPeriod, h |-> history]
      [] event = "finished" /\ trip.stage \in {1, 3} ->
           [trip EXCEPT !.stage = @ + 1]
      [] event = "back" /\ trip.stage = 2 ->
           [trip EXCEPT !.stage = 3]
      [] OTHER -> TripIdle

\* --------------------------------------------------------- pure operations
\* a comparator that compares the Date objects, not their instants
dateComparatorByRef(value, other) ==
    IF value.k = "date" /\ other.k = "date"
    THEN IF value = other THEN "true" ELSE "false"
    ELSE "undefined"

\* dateComparator: decides for two dates, leaves the rest to lodash
\* ("undefined" = use the default comparison)
dateComparator(value, other) ==
    IF value.k = "date" /\ other.k = "date"
    THEN IF value.v = other.v THEN "true" ELSE "false"
    ELSE "undefined"

\* lodash's default comparison of two prop values: Dates by time value,
\* null only equal to null
DefaultEqual(a, b) == a.k = b.k /\ a.v = b.v

\* isEqualWith(a, b, dateComparator) on the picked {period, start, end}
FieldEqualWithDates(a, b) ==
    LET c == dateComparator(a, b)
    IN  IF c = "undefined" THEN DefaultEqual(a, b) ELSE c = "true"

isEqualWithDates(a, b) ==
    /\ a.period = b.period
    /\ FieldEqualWithDates(a.start, b.start)
    /\ FieldEqualWithDates(a.end, b.end)

shouldComponentUpdate(cur, nextProps) ==
    IF nextProps.zoom \/ isEqualWithDates(cur, nextProps) THEN FALSE ELSE TRUE

\* moment#diff(that, 'hours'): the difference truncated toward zero
DiffHours(endMs, startMs) ==
    LET d == endMs - startMs
    IN  IF d >= 0 THEN d \div Hour ELSE -((-d) \div Hour)

useHourlyInterval(p) ==
    IF p.period.k = "str"
    THEN p.period.u = "h" \/ (p.period.n = 1 /\ p.period.u = "d")
    ELSE /\ p.start.k # "null"
         /\ p.end.k # "null"
         /\ DiffHours(p.end.v, p.start.v) <= HourlyLimit

RenderInterval(p) == IF useHourlyInterval(p) THEN "1h" ELSE "1d"

\* a snapshot that keeps the values as they were passed
saveCurrentPeriodRaw(p) == Range(p.period, p.start, p.end)

\* saveCurrentPeriod, lines 91-97
saveCurrentPeriod(p) == Range(p.period, getDate(p.start), getDate(p.end))

\* ---------------------------------------------------------------- setPeriod
NoZooming ==
    [set |-> FALSE, period |-> PNull, start |-> Null, end |-> Null,
     startFormatted |-> Null, endFormatted |-> Null]

OnZoomCall(r) ==
    [fn |-> "onZoom", period |-> r.period, start |-> r.start, end |-> r.end, zoom |-> ""]

UpdateParamsCall(z) ==
    [fn |-> "updateParams", period |-> z.period, start |-> z.startFormatted,
     end |-> z.endFormatted, zoom |-> "1"]

\* a push on every call, saveHistory or not
SetPeriodHistoryAlways(h, saveHistory) == Append(h, currentPeriod)

\* setPeriod, lines 113-115: the history after the optional push
SetPeriodHistory(h, saveHistory) ==
    IF saveHistory THEN Append(h, currentPeriod) ELSE h

\* a notification that passes the dates on unformatted
SetPeriodNotifyRaw(r) ==
    IF props.onZoom
    THEN << OnZoomCall(Range(r.period, r.start, r.end)) >>
    ELSE << >>

\* setPeriod, lines 123-129: the parent is told at once, when it listens
SetPeriodNotify(r) ==
    IF props.onZoom
    THEN << OnZoomCall(Range(r.period, getDate(r.start), getDate(r.end))) >>
    ELSE << >>

\* a closure that is not replaced while one is pending
SetPeriodClosureKeepFirst(r) ==
    IF zooming.set
    THEN zooming
    ELSE [set |-> TRUE, period |-> r.period, start |-> r.start, end |-> r.end,
          startFormatted |-> getDate(r.start), endFormatted |-> getDate(r.end)]

\* setPeriod, lines 131-140: the closure stored in this.zooming
SetPeriodClosure(r) ==
    [set |-> TRUE, period |-> r.period, start |-> r.start, end |-> r.end,
     startFormatted |-> getDate(r.start), endFormatted |-> getDate(r.end)]

\* setPeriod without its effect on the history, which the caller composes
setPeriod(r) ==
    /\ calls' = SetPeriodNotify(r)
    /\ zooming' = SetPeriodClosure(r)
    /\ nSetPeriod' = nSetPeriod + 1
    /\ sinceCommit' = sinceCommit + 1
    /\ lastReq' = Range(r.period, getDate(r.start), getDate(r.end))
    /\ UNCHANGED <<nUpdate, currentPeriod>>

\* ------------------------------------------------------------------- Init
\* the constructor, then the first render
InitWith(p) ==
    /\ props = p
    /\ history = << >>
    /\ currentPeriod = saveCurrentPeriod(p)
    /\ zooming = NoZooming
    /\ interval = RenderInterval(p)
    /\ series = SeriesFor(RenderInterval(p))
    /\ calls = << >>
    /\ lastEvent = "init"
    /\ nSetPeriod = 0
    /\ nUpdate = 0
    /\ sinceCommit = 0
    /\ lastReq = NoRange
    /\ root = NoRange
    /\ trail = << >>
    /\ prevLen = 0
    /\ nProps = 0
    /\ markers = <<0, 0>>
    /\ trip = TripIdle

\* ----------------------------------------------------------------- actions
\* an update that starts a new zoom session: history and pending commit dropped
componentDidUpdateResetting(p) ==
    /\ currentPeriod' = saveCurrentPeriod(p)
    /\ history' = << >>
    /\ zooming' = NoZooming
    /\ calls' = << >>

\* componentDidUpdate, lines 71-75: saveCurrentPeriod(this.props) and nothing
\* else
componentDidUpdate(p) ==
    /\ currentPeriod' = saveCurrentPeriod(p)
    /\ calls' = << >>
    /\ UNCHANGED <<history, zooming>>

\* The owner re-renders with new props: shouldComponentUpdate decides
\* whether render and componentDidUpdate run; this.props changes either way.
ReceiveProps(nextProps) ==
    LET update == shouldComponentUpdate(props, nextProps)
    IN  /\ nSetPeriod + nProps < MaxSteps
        /\ nProps' = nProps + 1
        /\ markers' = <<0, 0>>
        /\ trip' = TripAfter("props")
        /\ props' = nextProps
        /\ IF update
           THEN /\ interval' = RenderInterval(nextProps)
                /\ series' = SeriesFor(RenderInterval(nextProps))
                /\ componentDidUpdate(nextProps)
           ELSE /\ calls' = << >>
                /\ UNCHANGED <<interval, series, currentPeriod, history, zooming>>
        /\ lastEvent' = IF update THEN "rendered" ELSE "suppressed"
        /\ prevLen' = Len(history)
        /\ UNCHANGED <<nSetPeriod, nUpdate, sinceCommit, lastReq, root, trail>>

\* an early return that drops the pending commit
EarlyReturnDropsPending ==
    /\ calls' = << >>
    /\ zooming' = NoZooming
    /\ UNCHANGED <<currentPeriod, history, nSetPeriod, nUpdate, sinceCommit,
                   lastReq, trail>>

\* handleZoomRestore, lines 160-162, and handleDataZoom, lines 180-182: the
\* return taken when the history is empty
EarlyReturn ==
    /\ calls' = << >>
    /\ UNCHANGED <<currentPeriod, history, zooming, nSetPeriod, nUpdate,
                   sinceCommit, lastReq, trail>>

\* a restore that goes back one step only
RestoreTargetLast(h) == h[Len(h)]

\* handleZoomRestore, line 164: the entry restore goes back to
RestoreTarget(h) == h[1]

handleZoomRestore ==
    /\ UNCHANGED nProps
    /\ markers' = <<0, 0>>
    /\ lastEvent' = "restore"
    /\ trip' = TripAfter("restore")
    /\ prevLen' = Len(history)
    /\ UNCHANGED <<props, interval, series, root>>
    /\ IF Len(history) = 0
       THEN EarlyReturn
       ELSE /\ nSetPeriod + nProps < MaxSteps
            /\ setPeriod(RestoreTarget(history))
            /\ history' = << >>
            /\ trail' = << >>

\* handleDataZoom, lines 177-184: both range markers null
Front(h) == SubSeq(h, 1, Len(h) - 1)
PopTarget(h) == h[Len(h)]
PopRest(h) == Front(h)

handleDataZoomBack ==
    /\ UNCHANGED nProps
    /\ markers' = <<0, 0>>
    /\ lastEvent' = "back"
    /\ trip' = TripAfter("back")
    /\ prevLen' = Len(history)
    /\ UNCHANGED <<props, interval, series, root>>
    /\ IF Len(history) = 0
       THEN EarlyReturn
       ELSE /\ nSetPeriod + nProps < MaxSteps
            /\ setPeriod(PopTarget(history))
            /\ history' = SetPeriodHistory(PopRest(history), FALSE)
            /\ trail' = Front(trail)

\* handleDataZoom, lines 187-193: the range a selection rangeStart..rangeEnd names
ZoomStart(data, rangeStart) == MomentV(data[rangeStart])
ZoomUnit(p) == IF useHourlyInterval(p) THEN Hour ELSE Day
\* an end that is not moved back by one second
ZoomEndNoSubtract(data, rangeEnd, p) == MomentV(data[rangeEnd] + ZoomUnit(p))
\* an end that is not moved to the end of its bucket
ZoomEndNoAdd(data, rangeEnd, p) == MomentV(data[rangeEnd] - Second)
ZoomEnd(data, rangeEnd, p) == MomentV(data[rangeEnd] + ZoomUnit(p) - Second)

handleDataZoomIn(rangeStart, rangeEnd) ==
    /\ nSetPeriod + nProps < MaxSteps
    /\ UNCHANGED nProps
    /\ markers' = <<rangeStart, rangeEnd>>
    /\ lastEvent' = "zoomin"
    /\ trip' = TripAfter("zoomin")
    /\ prevLen' = Len(history)
    /\ UNCHANGED <<props, interval, series>>
    /\ setPeriod(Range(PNull, ZoomStart(series, rangeStart),
                       ZoomEnd(series, rangeEnd, props)))
    /\ history' = SetPeriodHistory(history, TRUE)
    /\ root' = IF Len(history) = 0 THEN currentPeriod ELSE root
    /\ trail' = Append(trail, lastReq')

\* a test that never sees the stored closure
NeverPending(z) == FALSE

\* handleChartFinished, line 207: typeof this.zooming === 'function'
IsPending(z) == z.set

\* a commit that leaves the closure in place
ZoomingKept(z) == z

\* handleChartFinished, line 209: this.zooming = null
ZoomingAfterCommit(z) == NoZooming

handleChartFinished ==
    /\ UNCHANGED nProps
    /\ markers' = <<0, 0>>
    /\ lastEvent' = "finished"
    /\ trip' = TripAfter("finished")
    /\ prevLen' = Len(history)
    /\ UNCHANGED <<props, interval, series, history, root, trail, lastReq, nSetPeriod>>
    /\ IF IsPending(zooming)
       THEN /\ calls' = << UpdateParamsCall(zooming) >>
            /\ currentPeriod' = saveCurrentPeriod(zooming)
            /\ zooming' = ZoomingAfterCommit(zooming)
            /\ nUpdate' = nUpdate + 1
            /\ sinceCommit' = 0
       ELSE /\ calls' = << >>
            /\ UNCHANGED <<currentPeriod, zooming, nUpdate, sinceCommit>>

\* the props the owner may pass next: it keeps listening, or not listening,
\* to onZoom
NextPropsFrom(S) == { p \in S : p.onZoom = props.onZoom }

\* The component is mounted before any zoom: the zoom flag is not yet set
\* (the flag of the current props is read nowhere, only that of the next).
Init == \E p \in { q \in PropsSet : ~q.zoom } : InitWith(p)

Next ==
    \/ \E nextProps \in NextPropsFrom(PropsSet) : ReceiveProps(nextProps)
    \/ \E i \in 1..SeriesLen : \E j \in i..SeriesLen : handleDataZoomIn(i, j)
    \/ handleDataZoomBack
    \/ handleZoomRestore
    \/ handleChartFinished

Spec == Init /\ [][Next]_vars

FairSpec == Spec /\ WF_vars(handleChartFinished)

\* The operations that depend on the props alone (the render gate, the
\* interval selector, the snapshot), run over every range of WidePropsSet.
\* The component is constructed with the first Date objects (object 1); a
\* later render may pass new objects for the same instants.
PropsInit == \E p \in { q \in WidePropsSet : q.start.id # 2 /\ ~q.zoom } : InitWith(p)

PropsNext == \E nextProps \in WidePropsSet : ReceiveProps(nextProps)

PropsSpec == PropsInit /\ [][PropsNext]_vars

\* =================================================================== claims
ProgramUnchanged == UNCHANGED <<props, currentPeriod, history, zooming, interval, series>>

\* the updateParams call that commits range r
CommitOf(r) ==
    [fn |-> "updateParams", period |-> r.period, start |-> r.start, end |-> r.end,
     zoom |-> "1"]

\* the range a pending closure will commit
PendingRange(z) == Range(z.period, z.startFormatted, z.endFormatted)

\* C1: a restore event on a history of N >= 1 entries, whatever finished
\* events came between the zoom-ins, requests the snapshot that was current
\* before the first zoom-in (history[0]), pushes nothing and leaves the
\* history empty.
C1_RestoreRequestsRoot ==
    [][ (lastEvent' = "restore" /\ Len(history) >= 1) =>
          /\ history[1] = root
          /\ lastReq' = root
          /\ zooming'.set
          /\ PendingRange(zooming') = root
          /\ history' = << >> ]_vars

C1_Witness ==
    /\ lastEvent = "restore"
    /\ prevLen >= 2
    /\ nUpdate >= 1
    /\ history = << >>
    /\ zooming.set
    /\ lastReq = root

\* C2: after N zoom-ins from R0 through R1..RN, the step-backs request
\* R(N-1), ..., R0 in that order (with k entries left the step-back requests
\* R(k-1), the range the (k-1)-th zoom-in requested, or R0 for k = 1), each
\* removes exactly one entry and pushes none; a step-back on an empty history
\* changes nothing and notifies nobody.
C2_StepBackReverseOrder ==
    [][ lastEvent' = "back" =>
          IF Len(history) >= 1
          THEN /\ lastReq' = (IF Len(history) = 1 THEN root
                                                  ELSE trail[Len(history) - 1])
               /\ history' = SubSeq(history, 1, Len(history) - 1)
          ELSE /\ ProgramUnchanged
               /\ calls' = << >> ]_vars

\* C3: updateParams is never called more often than setPeriod; a finished
\* event with no setPeriod since the last commit calls nothing; a finished
\* event with an empty pending slot changes no state and calls nothing; no
\* finished event calls updateParams twice.
C3_CommitIdempotent ==
    /\ [](nUpdate <= nSetPeriod)
    /\ [][ lastEvent' = "finished" =>
             /\ (sinceCommit = 0 => (calls' = << >> /\ nUpdate' = nUpdate))
             /\ (~zooming.set => (ProgramUnchanged /\ calls' = << >>))
             /\ Len(calls') <= 1
             /\ nUpdate' <= nUpdate + 1 ]_vars

C3_Witness ==
    /\ lastEvent = "finished"
    /\ calls = << >>
    /\ sinceCommit = 0
    /\ nUpdate >= 1
    /\ nUpdate < nSetPeriod

\* C4: one pending commit at most: a finished event that follows two or more
\* setPeriod calls with no finished event between them calls updateParams
\* exactly once, with the range of the last of those calls, and empties the
\* slot; a commit is pending exactly when a setPeriod call is uncommitted.
C4_LatestRequestWins ==
    /\ [](zooming.set <=> sinceCommit >= 1)
    /\ [][ (lastEvent' = "finished" /\ sinceCommit >= 2) =>
             /\ calls' = << CommitOf(lastReq) >>
             /\ nUpdate' = nUpdate + 1
             /\ ~zooming'.set
             /\ sinceCommit' = 0 ]_vars

C4_Witness ==
    /\ lastEvent = "finished"
    /\ nUpdate = 1
    /\ nSetPeriod >= 2
    /\ calls = << CommitOf(lastReq) >>
    /\ Len(trail) = 2
    /\ trail[1] # trail[2]

\* a canonical date string, or null
CanonicalDate(x) ==
    \/ x.k = "null"
    \/ (x.k = "str" /\ FormatUtc(ParseUtc(x.v)) = x.v)
CanonicalRange(r) == CanonicalDate(r.start) /\ CanonicalDate(r.end)

UpdateParamsOnlyOnFinished ==
    \A i \in 1..Len(calls') :
        calls'[i].fn = "updateParams" =>
            /\ lastEvent' = "finished"
            /\ calls'[i] = CommitOf(lastReq)

\* C5 as stated: every setPeriod call notifies onZoom at once with the
\* canonical range and calls updateParams not; updateParams is called only
\* by a finished event, with zoom = '1' and the range of the most recent
\* notification (that of the most recent setPeriod call, every call
\* notifying).
C5_EveryRequestNotifies ==
    [][ /\ (nSetPeriod' = nSetPeriod + 1 =>
               /\ calls' = << OnZoomCall(lastReq') >>
               /\ CanonicalRange(lastReq'))
        /\ UpdateParamsOnlyOnFinished ]_vars

\* C5 amended: every setPeriod call notifies onZoom at once with the
\* canonical range when an onZoom callback is supplied, calls nothing when
\* none is, and never calls updateParams; updateParams is called only by a
\* finished event, with zoom = '1' and the canonical range of the most
\* recent setPeriod call.
C5_NotifyPrecedesCommit ==
    [][ /\ (nSetPeriod' = nSetPeriod + 1 =>
               /\ calls' = (IF props.onZoom THEN << OnZoomCall(lastReq') >> ELSE << >>)
               /\ CanonicalRange(lastReq')
               /\ zooming'.set
               /\ PendingRange(zooming') = lastReq')
        /\ UpdateParamsOnlyOnFinished ]_vars

C5_Witness ==
    /\ lastEvent = "zoomin"
    /\ props.onZoom
    /\ calls = << OnZoomCall(lastReq) >>
    /\ zooming.set
    /\ nUpdate = 0

\* C6: under fairness of the finished event, a pending commit leads to a
\* state where the slot is empty and the finished event has passed the most
\* recently requested range to updateParams, once.
C6_PendingIsCommitted ==
    zooming.set ~>
        (/\ ~zooming.set
         /\ lastEvent = "finished"
         /\ calls = << CommitOf(lastReq) >>)

C6_Witness ==
    /\ ~zooming.set
    /\ lastEvent = "finished"
    /\ calls = << CommitOf(lastReq) >>
    /\ nSetPeriod = 1
    /\ currentPeriod = lastReq

\* hourly as the interval selector is described: by the period string, or
\* by the span in whole seconds
ClaimedHourly(p) ==
    IF p.period.k = "str"
    THEN p.period.u = "h" \/ (p.period.n = 1 /\ p.period.u = "d")
    ELSE (p.end.v - p.start.v) \div Second <= HourlyLimit * (Hour \div Second)

\* C7: the interval chosen at a render is hourly iff the period ends in 'h'
\* or is '1d' (relative range), or iff end - start, measured in seconds, is
\* at most 24 hours (absolute range): 24h0m0s is hourly, 24h0m1s is daily.
C7_IntervalSelector ==
    lastEvent \in {"init", "rendered"} => ((interval = "1h") <=> ClaimedHourly(props))

\* two prop values for the same instant (or both null)
SameInstant(x, y) == x.k = y.k /\ x.v = y.v

C9_ZoomInRange ==
    [][ lastEvent' = "zoomin" =>
          LET i == markers'[1]
              j == markers'[2]
              unit == IF useHourlyInterval(props) THEN Hour ELSE Day
          IN  /\ i <= j
              /\ zooming'.set
              /\ zooming'.period = PNull
              /\ zooming'.start = MomentV(series[i])
              /\ zooming'.end = MomentV(series[j] + unit - Second)
              /\ lastReq' = Range(PNull, StrV(FormatUtc(series[i])),
                                  StrV(FormatUtc(series[j] + unit - Second)))
              /\ history' = Append(history, currentPeriod) ]_vars

C9_Witness ==
    /\ lastEvent = "zoomin"
    /\ markers[1] < markers[2]
    /\ interval = "1h"
    /\ useHourlyInterval(props)
    /\ Len(history) = prevLen + 1
    /\ history[Len(history)] = currentPeriod

\* a range that is fully relative, or fully absolute with start <= end
WellFormed(r) ==
    \/ (r.period.k = "str" /\ r.start.k = "null" /\ r.end.k = "null")
    \/ (/\ r.period.k = "null"
        /\ r.start.k # "null"
        /\ r.end.k # "null"
        /\ MomentUtc(r.start) <= MomentUtc(r.end))

\* C10: with well-formed props, the snapshot, every history entry, every
\* range passed to onZoom or updateParams and the range of a pending commit
\* are well-formed.
C10_RangesWellFormed ==
    WellFormed(props) =>
        /\ WellFormed(currentPeriod)
        /\ \A k \in 1..Len(history) : WellFormed(history[k])
        /\ \A k \in 1..Len(calls) : WellFormed(calls[k])
        /\ (zooming.set => WellFormed(PendingRange(zooming)))
        /\ (nSetPeriod >= 1 => WellFormed(lastReq))

C10_Witness ==
    /\ Len(history) = 2
    /\ history[1].period.k = "str"
    /\ history[2].period.k = "null"
    /\ zooming.set
    /\ Len(calls) = 1
    /\ MomentUtc(calls[1].start) < MomentUtc(calls[1].end)

\* C11: saveCurrentPeriod, run from the constructor and from
\* componentDidUpdate, changes only the snapshot: the construction leaves
\* the history empty and no commit pending, an update leaves the history and
\* the pending commit as they were, and neither calls onZoom or updateParams.
C11_SyncChangesOnlySnapshot ==
    /\ (history = << >> /\ ~zooming.set /\ calls = << >>)
    /\ [][ lastEvent' = "rendered" =>
             /\ history' = history
             /\ zooming' = zooming
             /\ calls' = << >> ]_vars

C11_Witness ==
    /\ lastEvent = "rendered"
    /\ Len(history) >= 1
    /\ zooming.set
    /\ currentPeriod # history[Len(history)]
    /\ calls = << >>

\* C12: a restore event and a step-back (both markers null) on an empty
\* history leave the history, the snapshot and the pending commit as they
\* were, a pending commit included, and call neither onZoom nor updateParams.
C12_EmptyHistoryNoOps ==
    [][ (lastEvent' \in {"restore", "back"} /\ Len(history) = 0) =>
          /\ history' = history
          /\ currentPeriod' = currentPeriod
          /\ zooming' = zooming
          /\ calls' = << >> ]_vars

C12_Witness ==
    /\ lastEvent \in {"restore", "back"}
    /\ prevLen = 0
    /\ history = << >>
    /\ zooming.set
    /\ props.onZoom
    /\ calls = << >>

\* C13: when the incoming zoom flag is not set and a prop other than period,
\* start and end changes (here the onZoom callback) while those three are
\* unchanged, shouldComponentUpdate returns true and the component
\* re-renders.
C13_OtherPropChangeRenders ==
    [][ (/\ lastEvent' \in {"rendered", "suppressed"}
         /\ ~props'.zoom
         /\ props'.onZoom # props.onZoom
         /\ props'.period = props.period
         /\ props'.start = props.start
         /\ props'.end = props.end) => lastEvent' = "rendered" ]_vars

\* the range an onZoom or updateParams call was passed
CallRange(c) == Range(c.period, c.start, c.end)

\* C14: immediately after a finished event runs a pending commit, the
\* pending slot is empty, the snapshot is the canonical (period, start, end)
\* that was just passed to updateParams, and the history is as it was.
C14_CommitThenSync ==
    [][ (lastEvent' = "finished" /\ zooming.set) =>
          /\ ~zooming'.set
          /\ Len(calls') = 1
          /\ calls'[1].fn = "updateParams"
          /\ currentPeriod' = CallRange(calls'[1])
          /\ CanonicalRange(currentPeriod')
          /\ history' = history ]_vars

C14_Witness ==
    /\ lastEvent = "finished"
    /\ ~zooming.set
    /\ Len(calls) = 1
    /\ calls[1].fn = "updateParams"
    /\ currentPeriod = CallRange(calls[1])
    /\ Len(history) = 2
    /\ history[2] # currentPeriod

\* the date values the program holds: props, snapshot, history entries, the
\* pending closure's arguments and its formatted strings
HeldDates ==
    {props.start, props.end, currentPeriod.start, currentPeriod.end,
     zooming.start, zooming.end, zooming.startFormatted, zooming.endFormatted}
    \cup { history[k].start : k \in 1..Len(history) }
    \cup { history[k].end : k \in 1..Len(history) }

\* a pending commit that replays a stored (already canonical) range
ReplayPending(z) == z.set /\ z.start.k # "moment" /\ z.end.k # "moment"

\* C15: getDate is idempotent on every date value the program holds (Date
\* objects, moments, canonical strings, null), so a history entry replayed
\* through setPeriod is requested, and then committed, with the start and
\* end strings it was stored with.
C15_NormalizationIdempotent ==
    /\ [](\A x \in HeldDates : getDate(getDate(x)) = getDate(x))
    /\ [][ /\ ((lastEvent' = "back" /\ Len(history) >= 1) =>
                 PendingRange(zooming') = history[Len(history)])
           /\ ((lastEvent' = "restore" /\ Len(history) >= 1) =>
                 PendingRange(zooming') = history[1])
           /\ ((lastEvent' = "finished" /\ ReplayPending(zooming)) =>
                 calls' = << CommitOf(Range(zooming.period, zooming.start,
                                            zooming.end)) >>) ]_vars

C15_Witness ==
    /\ lastEvent = "finished"
    /\ nSetPeriod = 2
    /\ nUpdate = 1
    /\ history = << >>
    /\ root.start.k = "str"
    /\ root.start.v # root.end.v
    /\ calls = << CommitOf(root) >>

\* C16: whenever no commit is pending, the snapshot (the value a zoom-in
\* would push onto the history) is the canonical form of the range the props
\* currently supply.
C16_SnapshotFresh ==
    ~zooming.set =>
        currentPeriod = Range(props.period, getDate(props.start), getDate(props.end))

\* the milliseconds of one bucket of the rendered series
BucketOf(itv) == IF itv = "1h" THEN Hour ELSE Day

\* C17: the unit a zoom-in adds to the end marker's timestamp (an hour or a
\* day) is the bucket interval the chart series was last rendered with.
C17_GranularityConsistent ==
    [][ lastEvent' = "zoomin" =>
          zooming'.end.v = series[markers'[2]] + BucketOf(interval) - Second ]_vars

\* C18: after an external range change that is not a zoom commit (a prop
\* change without the zoom flag that re-renders), the history holds no entry
\* captured before that change, so that a later restore cannot request an
\* older range.
C18_HistoryOfCurrentSession ==
    [][ lastEvent' = "rendered" => history' = << >> ]_vars

\* C19: starting with snapshot R0, history H and no commit pending, the
\* sequence zoom-in, finished, step-back, finished ends with updateParams
\* last called with R0's period, start and end, the snapshot equal to R0,
\* the history equal to H and the pending slot empty.
C19_ZoomBackRoundTrip ==
    trip.stage = 4 =>
        /\ calls = << CommitOf(trip.r0) >>
        /\ currentPeriod = trip.r0
        /\ history = trip.h
        /\ ~zooming.set

C19_Witness ==
    /\ trip.stage = 4
    /\ lastEvent = "finished"
    /\ Len(trip.h) = 1
    /\ trip.h[1] # trip.r0
    /\ currentPeriod = trip.r0
    /\ history = trip.h
    /\ nSetPeriod = 3

====
